---- MODULE Spec2Model ----
(***************************************************************************)
(* A model of the acquisition-and-enrichment pipeline of                   *)
(* github-trending-reporter (src/trending_scraper.py): the listing fetch   *)
(* with its retry wrapper, the per-article parse loop of scrape, and the   *)
(* per-repository enrichment loop of _enrich_with_api, together with the   *)
(* request target of _build_url and the number reading of _parse_number,   *)
(* whose float arithmetic is modelled bit by bit (IEEE-754 binary64).      *)
(*                                                                         *)
(* Text is modelled as a sequence of tokens.  A token is a single          *)
(* character wherever the code inspects characters (count texts), and an   *)
(* opaque run of characters holding no separator elsewhere (path segments, *)
(* user names).  Python values stored in a repository dictionary or held   *)
(* by a JSON body carry a tag, so that None, numbers, strings, lists and   *)
(* dictionaries can be told apart the way Python tells them apart.         *)
(***************************************************************************)
EXTENDS Integers, Sequences, FiniteSets, TLC

VARIABLES
    scraper,       \* the TrendingScraper: its language and since attributes
    apiAnswers,    \* which answers the core metadata endpoint may give: "varied", "overlay"
    target,        \* ghost: the URL of the latest listing request, <<>> before the first
    token,         \* config.GITHUB_API_TOKEN, a text ("" when not configured)
    listing,       \* the document the listing endpoint currently serves
    budget,        \* how many more secondary-API responses may deviate from the nominal one
    pc,            \* position of the run: "fetch", "parse", "parsed", "enrich", "done", "raised"
    attempts,      \* retry state of _fetch_page: attempts made so far
    waits,         \* retry state of _fetch_page: backoff sleeps made so far
    lastFetch,     \* retry state of _fetch_page: the answer to the latest failed request
    articles,      \* soup.find_all("article", ...): the entry blocks of the fetched document
    k,             \* index of the next article of the parse loop (1-based)
    skipped,       \* ghost: the articles the parse loop dropped, <<index, reason>>
    repositories,  \* the list scrape builds; _enrich_with_api mutates its records in place
    baseline,      \* ghost: repositories as handed to _enrich_with_api
    i,             \* index of the record _enrich_with_api works on (1-based: enumerate's i + 1)
    epc,           \* position inside one iteration: "core", "readme", "commits", "languages"
    enriched,      \* the list _enrich_with_api builds
    log,           \* ghost: per record and kind of request, the responses received
    error,         \* the exception that left scrape, "" when none
    options,       \* run_report's push_to_repo and output_local arguments
    services,      \* how the LLM and the data repository behave: "nominal", "any"
    rpc,           \* position of run_report: "fetch", "analyze", "save", "push", "returned"
    steps,         \* ghost: the steps run_report started after the fetch, in order
    result         \* what run_report returned: "True", "False", "raised", "" while running

\* The state of fetch_trending and of the scraper it builds.
scrapeVars == <<scraper, apiAnswers, target, token, listing, budget, pc, attempts, waits, lastFetch, articles, k,
                skipped, repositories, baseline, i, epc, enriched, log, error>>

vars == <<scraper, apiAnswers, target, token, listing, budget, pc, attempts, waits, lastFetch, articles, k,
          skipped, repositories, baseline, i, epc, enriched, log, error,
          options, services, rpc, steps, result>>

---------------------------------------------------------------------------
(* Python values *)

PyNone == [t |-> "none"]
PyInt(n) == [t |-> "int", v |-> n]
PyStr(s) == [t |-> "str", v |-> s]
PyBool(b) == [t |-> "bool", v |-> b]
PyList(l) == [t |-> "list", v |-> l]
PyDict(d) == [t |-> "dict", v |-> d]

\* The empty dictionary: a function with the empty domain.
EmptyDict == [x \in {} |-> PyNone]

\* Python truth value of a tagged value.
Truthy(x) ==
    CASE x.t = "none" -> FALSE
      [] x.t = "int"  -> x.v # 0
      [] x.t = "str"  -> x.v # <<>>
      [] x.t = "bool" -> x.v
      [] x.t = "list" -> x.v # <<>>
      [] x.t = "dict" -> DOMAIN x.v # {}

\* dict.get(key, default)
Get(d, key, default) == IF key \in DOMAIN d THEN d[key] ELSE default

\* d[key] = value
Put(d, key, value) == [x \in DOMAIN d \cup {key} |-> IF x = key THEN value ELSE d[x]]

\* The outcome of a call: a returned value or a raised exception.
Ret(v) == [raised |-> FALSE, val |-> v]
Raise(e) == [raised |-> TRUE, exc |-> e]

---------------------------------------------------------------------------
(* Text helpers *)

Whitespace == {" "}

RECURSIVE LStrip(_, _)
LStrip(s, drop) ==
    IF s # <<>> /\ Head(s) \in drop THEN LStrip(Tail(s), drop) ELSE s

RECURSIVE RStrip(_, _)
RStrip(s, drop) ==
    IF s # <<>> /\ s[Len(s)] \in drop THEN RStrip(SubSeq(s, 1, Len(s) - 1), drop) ELSE s

\* str.strip(chars)
Strip(s, drop) == RStrip(LStrip(s, drop), drop)

\* str.replace(c, "")
RECURSIVE Remove(_, _)
Remove(s, c) ==
    IF s = <<>> THEN <<>>
    ELSE IF Head(s) = c THEN Remove(Tail(s), c)
    ELSE <<Head(s)>> \o Remove(Tail(s), c)

\* c in s
Contains(s, c) == \E n \in 1..Len(s) : s[n] = c

LowerChar(c) ==
    CASE c = "K" -> "k"
      [] c = "M" -> "m"
      [] c = "I" -> "i"
      [] c = "N" -> "n"
      [] c = "F" -> "f"
      [] c = "X" -> "x"
      [] OTHER -> c

\* str.lower()
Lower(s) == [n \in 1..Len(s) |-> LowerChar(s[n])]

\* str.split(sep): the parts between separators, empty parts kept.
Split(s, sep) ==
    LET cuts      == {0, Len(s) + 1} \cup {n \in 1..Len(s) : s[n] = sep}
        Before(c) == Cardinality({d \in cuts : d < c})
    IN  [p \in 1..(Cardinality(cuts) - 1) |->
           SubSeq(s, (CHOOSE c \in cuts : Before(c) = p - 1) + 1,
                     (CHOOSE c \in cuts : Before(c) = p) - 1)]

\* str.split(): the words between runs of whitespace, no empty word.
RECURSIVE WordsAcc(_, _)
WordsAcc(s, cur) ==
    IF s = <<>> THEN (IF cur = <<>> THEN <<>> ELSE <<cur>>)
    ELSE IF Head(s) \in Whitespace
         THEN (IF cur = <<>> THEN <<>> ELSE <<cur>>) \o WordsAcc(Tail(s), <<>>)
    ELSE WordsAcc(Tail(s), Append(cur, Head(s)))

Words(s) == WordsAcc(s, <<>>)

\* element.get_text(strip=True) of an element holding one text node
GetText(s) == Strip(s, Whitespace)

---------------------------------------------------------------------------
(* NumberNormalizer: TrendingScraper._parse_number *)

Digits == {"0", "1", "2", "3", "4", "5", "6", "7", "8", "9"}

DigitVal(c) ==
    CASE c = "0" -> 0 [] c = "1" -> 1 [] c = "2" -> 2 [] c = "3" -> 3
      [] c = "4" -> 4 [] c = "5" -> 5 [] c = "6" -> 6 [] c = "7" -> 7
      [] c = "8" -> 8 [] c = "9" -> 9

AllDigits(s) == \A n \in 1..Len(s) : s[n] \in Digits

RECURSIVE DigitsVal(_)
DigitsVal(s) ==
    IF s = <<>> THEN 0 ELSE 10 * DigitsVal(SubSeq(s, 1, Len(s) - 1)) + DigitVal(s[Len(s)])

RECURSIVE Pow10(_)
Pow10(n) == IF n = 0 THEN 1 ELSE 10 * Pow10(n - 1)

\* The decimal a digit string with at most one "." denotes, given the parts
\* around the ".": ValueError unless one or two all-digit parts, one non-empty.
Decimal(neg, parts) ==
    IF /\ Len(parts) \in {1, 2}
       /\ \A n \in 1..Len(parts) : AllDigits(parts[n])
       /\ \E n \in 1..Len(parts) : parts[n] # <<>>
    THEN [kind |-> "num", neg |-> neg,
          mant |-> DigitsVal(parts[1] \o (IF Len(parts) = 2 THEN parts[2] ELSE <<>>)),
          frac |-> IF Len(parts) = 2 THEN Len(parts[2]) ELSE 0]
    ELSE [kind |-> "err"]

Unsigned(neg, body) ==
    IF body \in {<<"i", "n", "f">>, <<"i", "n", "f", "i", "n", "i", "t", "y">>}
    THEN [kind |-> "inf"]
    ELSE IF body = <<"n", "a", "n">>
    THEN [kind |-> "nan"]
    ELSE Decimal(neg, Split(body, "."))

\* float(text) on lower-cased, stripped text over the alphabet of the model
\* (digits, ".", sign, letters; no exponent and no underscore):
\*   [kind |-> "num", neg, mant, frac]  the decimal  (-1)^neg * mant / 10^frac
\*   [kind |-> "inf"], [kind |-> "nan"]  the special values float() accepts
\*   [kind |-> "err"]                    ValueError
Float(text) ==
    IF text # <<>> /\ Head(text) \in {"+", "-"}
    THEN Unsigned(Head(text) = "-", Tail(text))
    ELSE Unsigned(FALSE, text)

Negate(neg, q) == IF neg THEN 0 - q ELSE q

\* A Python float is an IEEE-754 binary64 number.  A positive one is held as
\* [sig, scale]: sig the 53 bits of its significand, first bit first, and the
\* value sig / 2^scale.  Bit strings are sequences of 0 and 1.
Precision == 53

Front(b) == SubSeq(b, 1, Len(b) - 1)

\* The bits of a natural number, none for 0.
RECURSIVE IntBits(_)
IntBits(n) == IF n = 0 THEN <<>> ELSE Append(IntBits(n \div 2), n % 2)

\* The natural number of a bit string.
RECURSIVE BitsVal(_)
BitsVal(b) == IF b = <<>> THEN 0 ELSE 2 * BitsVal(Front(b)) + b[Len(b)]

\* The bit string of b + 1; it is one bit longer when b is all ones.
RECURSIVE Inc(_)
Inc(b) ==
    IF b = <<>> THEN <<1>>
    ELSE IF b[Len(b)] = 0 THEN Append(Front(b), 1)
    ELSE Append(Inc(Front(b)), 0)

\* Round to nearest, ties to even: whether the kept bits go up, given the bits
\* dropped and whether anything non-zero lies beyond them.
RoundsUp(kept, dropped, sticky) ==
    /\ dropped # <<>>
    /\ dropped[1] = 1
    /\ \/ sticky
       \/ \E n \in 2..Len(dropped) : dropped[n] = 1
       \/ kept[Len(kept)] = 1

\* The float of kept bits that were rounded: a carry out of the top bit makes
\* the string one bit longer, its last bit a 0 that is dropped.
Normal(rounded, scale) ==
    IF Len(rounded) > Precision
    THEN [sig |-> SubSeq(rounded, 1, Precision), scale |-> scale - 1]
    ELSE [sig |-> rounded, scale |-> scale]

Rounded(kept, dropped, sticky, scale) ==
    Normal(IF RoundsUp(kept, dropped, sticky) THEN Inc(kept) ELSE kept, scale)

\* The float nearest to bits / 2^scale (+ something smaller when sticky), for a
\* bit string of at least Precision bits that starts with 1.
RoundBits(bits, sticky, scale) ==
    Rounded(SubSeq(bits, 1, Precision), SubSeq(bits, Precision + 1, Len(bits)),
            sticky, scale - (Len(bits) - Precision))

\* The binary expansion of sig + r / den, 0 <= r < den, from its first 1 up to
\* one bit more than the significand holds, and what is left of r.
RECURSIVE Expand(_, _, _)
Expand(sig, r, den) ==
    IF Len(sig) = Precision + 1 THEN [bits |-> sig, rem |-> r]
    ELSE IF sig = <<>> /\ 2 * r < den THEN Expand(<<>>, 2 * r, den)
    ELSE Expand(Append(sig, (2 * r) \div den), (2 * r) % den, den)

\* The zeros between the binary point and the first 1 of r / den, 0 < r < den.
RECURSIVE LeadingZeros(_, _)
LeadingZeros(r, den) == IF 2 * r >= den THEN 0 ELSE 1 + LeadingZeros(2 * r, den)

\* The bits after the binary point in the expansion of int + r / den.
FractionBits(int, r, den) ==
    IF int > 0 THEN Precision + 1 - Len(IntBits(int))
    ELSE Precision + 1 + LeadingZeros(r, den)

NearestOf(e, scale) == RoundBits(e.bits, e.rem # 0, scale)

\* float() of a positive decimal mant / den: the nearest float.
Nearest(mant, den) ==
    NearestOf(Expand(IntBits(mant \div den), mant % den, den),
              FractionBits(mant \div den, mant % den, den))

\* The bits of b * m + carry, for a small natural m.
RECURSIVE MulBits(_, _, _)
MulBits(b, m, carry) ==
    IF b = <<>> THEN IntBits(carry)
    ELSE IF (b[Len(b)] * m + carry) % 2 = 0
    THEN Append(MulBits(Front(b), m, (b[Len(b)] * m + carry) \div 2), 0)
    ELSE Append(MulBits(Front(b), m, (b[Len(b)] * m + carry) \div 2), 1)

\* d * m in float arithmetic: the exact product, rounded.
Times(d, m) == RoundBits(MulBits(d.sig, m, 0), FALSE, d.scale)

\* int(d): the bits before the binary point.
Trunc(d) ==
    IF d.scale >= Precision THEN 0 ELSE BitsVal(SubSeq(d.sig, 1, Precision - d.scale))

\* int(float * mult) for a decimal that is no zero.
IntOfProduct(mant, den, mult) == Trunc(Times(Nearest(mant, den), mult))

\* int(f * mult): truncation toward zero; int() of an infinity raises
\* OverflowError, int() of a NaN raises ValueError, as float() of a non-number.
IntOf(f, mult) ==
    CASE f.kind = "err" -> Raise("ValueError")
      [] f.kind = "nan" -> Raise("ValueError")
      [] f.kind = "inf" -> Raise("OverflowError")
      [] f.kind = "num" ->
           IF f.mant = 0 THEN Ret(0)
           ELSE Ret(Negate(f.neg, IntOfProduct(f.mant, Pow10(f.frac), mult)))

IntOfFloat(text, mult) == IntOf(Float(text), mult)

\* The try block of _parse_number (lines 127-132).
ParseNumberTry(text) ==
    IF Contains(text, "k") THEN IntOfFloat(Remove(text, "k"), 1000)
    ELSE IF Contains(text, "m") THEN IntOfFloat(Remove(text, "m"), 1000000)
    ELSE IntOfFloat(text, 1)

\* The except clause of _parse_number (lines 133-134): ValueError and
\* AttributeError are answered with 0, any other exception leaves the function.
ParseNumberExcept(r) ==
    IF r.raised /\ r.exc \in {"ValueError", "AttributeError"} THEN Ret(0) ELSE r

\* _parse_number
ParseNumber(raw) ==
    ParseNumberExcept(ParseNumberTry(Strip(Remove(Lower(raw), ","), Whitespace)))

---------------------------------------------------------------------------
(* RecordParser: TrendingScraper._parse_repository *)

\* An element that find() may or may not return: <<>> when missing, <<text>>
\* when present with that text.
Missing == <<>>
Present(text) == <<text>>

\* Lines 64-69: the identity fields, given the stripped href and its parts.
Identity(href, parts) ==
    IF Len(parts) >= 2
    THEN [owner     |-> PyStr(parts[1]),
          name      |-> PyStr(parts[2]),
          full_name |-> PyStr(parts[1] \o <<"/">> \o parts[2]),
          url       |-> PyStr(<<"https://github.com/">> \o href)]
    ELSE EmptyDict

IdentityOfHref(href) == Identity(href, Split(href, "/"))

\* The identity of an entry block (lines 59-69), empty when h2, its link, or a
\* second path segment is missing.
ParseIdentity(link) ==
    IF link.h2 /\ link.a THEN IdentityOfHref(Strip(link.href, {"/"})) ELSE EmptyDict

\* A text element with a default (lines 72-83).
ParseText(elem, default) ==
    IF elem # Missing THEN PyStr(GetText(elem[1])) ELSE PyStr(default)

\* The stars and forks elements (lines 86-99).
ParseCount(elem) ==
    IF elem # Missing THEN ParseNumber(Remove(GetText(elem[1]), ",")) ELSE Ret(0)

\* today_text.split()[0] handed to _parse_number (line 106).
FirstWordNumber(words) ==
    IF words = <<>> THEN Raise("IndexError") ELSE ParseNumber(words[1])

\* The stars-today element (lines 102-108).
ParseToday(elem) ==
    IF elem # Missing THEN FirstWordNumber(Words(GetText(elem[1]))) ELSE Ret(0)

\* Faulty variant, for sensitivity of the properties: the owner is not looked at.
KeepsNameAny(username, owner) == username # <<>>

\* Line 117, for the user name of one avatar.
KeepsName(username, owner) == username # <<>> /\ username # owner

\* The user names collected for built_by before deduplication (lines 111-118).
RECURSIVE BuiltByNames(_, _)
BuiltByNames(avatars, owner) ==
    IF avatars = <<>> THEN <<>>
    ELSE IF Head(avatars) # <<>> /\ KeepsName(Remove(Head(avatars), "@"), owner)
    THEN <<Remove(Head(avatars), "@")>> \o BuiltByNames(Tail(avatars), owner)
    ELSE BuiltByNames(Tail(avatars), owner)

Range(s) == {s[n] : n \in 1..Len(s)}

Min(a, b) == IF a <= b THEN a ELSE b

BuiltByLimit == 5

\* The duplicate-free listings of n members of a set.
Listings(names, n) ==
    {s \in [1..n -> names] : \A a, b \in 1..n : a # b => s[a] # s[b]}

Truncated(names) == Listings(names, Min(BuiltByLimit, Cardinality(names)))

\* The owner text user names are compared with (line 117).
OwnerOf(ident) == IF "owner" \in DOMAIN ident THEN ident["owner"].v ELSE <<>>

\* list(set(built_by))[:5] (line 119): a set lists its members in an order the
\* code does not control, so every duplicate-free listing of the right length
\* can result.
BuiltByChoices(article) ==
    Truncated(Range(BuiltByNames(article.avatars, OwnerOf(ParseIdentity(article.link)))))

\* The record of an entry block, given its parts; a count that raised leaves
\* _parse_repository in the order the code reads them.
Assemble(ident, desc, lang, stars, forks, today, bb) ==
    IF stars.raised THEN stars
    ELSE IF forks.raised THEN forks
    ELSE IF today.raised THEN today
    ELSE Ret([x \in DOMAIN ident \cup {"description", "language", "stars", "forks",
                                       "stars_today", "built_by"} |->
                CASE x = "description" -> desc
                  [] x = "language"    -> lang
                  [] x = "stars"       -> PyInt(stars.val)
                  [] x = "forks"       -> PyInt(forks.val)
                  [] x = "stars_today" -> PyInt(today.val)
                  [] x = "built_by"    -> PyList(bb)
                  [] OTHER             -> ident[x]])

\* _parse_repository, with the listing order of the set given as bb.
ParseRepository(article, bb) ==
    Assemble(ParseIdentity(article.link),
             ParseText(article.desc, <<>>),
             ParseText(article.lang, <<"Unknown">>),
             ParseCount(article.stars),
             ParseCount(article.forks),
             ParseToday(article.today),
             bb)

---------------------------------------------------------------------------
(* The secondary metadata API, as requests.get sees it *)

\* A response: requests.get raised exc (a text, "" when it returned), or it
\* returned a status and a body; body is <<>> when response.json() cannot parse
\* it and <<value>> when it parses to value.
NetError(e) == [exc |-> e, status |-> 0, body |-> <<>>]
Http(status, body) == [exc |-> "", status |-> status, body |-> body]

\* response.json()
Json(resp) == IF resp.body = <<>> THEN Raise("JSONDecodeError") ELSE Ret(resp.body[1])

\* Faulty variant, for sensitivity of the properties: a rate-limit answer is read like a success.
FetchRepoApiBodyReads403(resp) ==
    IF resp.exc # "" THEN Ret(PyNone)
    ELSE IF resp.status \in {200, 403}
         THEN (IF Json(resp).raised THEN Ret(PyNone) ELSE Ret(Json(resp).val))
    ELSE Ret(PyNone)

\* Faulty variant, for sensitivity of the properties: an exception of the request is answered with an error object.
FetchRepoApiBodyErrorObject(resp) ==
    IF resp.exc # "" THEN Ret(PyDict([error |-> PyStr(<<resp.exc>>)]))
    ELSE IF resp.status = 200
         THEN (IF Json(resp).raised THEN Ret(PyNone) ELSE Ret(Json(resp).val))
    ELSE Ret(PyNone)

\* Faulty variant, for sensitivity of the properties: an exception of the request leaves the function.
FetchRepoApiBodyRaises(resp) ==
    IF resp.exc # "" THEN Raise(resp.exc)
    ELSE IF resp.status = 200
         THEN (IF Json(resp).raised THEN Ret(PyNone) ELSE Ret(Json(resp).val))
    ELSE Ret(PyNone)

\* The body of _fetch_repo_api (lines 171-184): every exception is answered
\* with None inside the function.
FetchRepoApiBody(resp) ==
    IF resp.exc # "" THEN Ret(PyNone)
    ELSE IF resp.status = 200
         THEN (IF Json(resp).raised THEN Ret(PyNone) ELSE Ret(Json(resp).val))
    ELSE IF resp.status = 403 THEN Ret(PyNone)
    ELSE Ret(PyNone)

\* stop_after_attempt(3) of the retry decorators (lines 46 and 168)
MaxAttempts == 3

\* Faulty variant, for sensitivity of the properties: one attempt too many before giving up.
RetryAgainOffByOne(r, sent) == r.raised /\ sent <= MaxAttempts

\* Faulty variant, for sensitivity of the properties: no retry at all, the first exception leaves the call.
RetryNever(r, sent) == FALSE

\* The retry decorators (lines 46 and 168): with their default retry condition
\* a call is made again after any exception, while fewer than MaxAttempts
\* attempts were made; r is the outcome of the attempt, sent the attempts made.
RetryAgain(r, sent) == r.raised /\ sent < MaxAttempts

\* base64.b64decode(...).decode("utf-8") over four-character groups.
B64Group(g) ==
    CASE g = "IyBI" -> Ret(<<"#", " ", "H">>)
      [] g = "aSEK" -> Ret(<<"i", "!", "\n">>)
      [] OTHER      -> Raise("binascii.Error")

RECURSIVE B64Decode(_)
B64Decode(enc) ==
    IF enc = <<>> THEN Ret(<<>>)
    ELSE LET h == B64Group(Head(enc))
             r == B64Decode(Tail(enc))
         IN  IF h.raised THEN h ELSE IF r.raised THEN r ELSE Ret(h.val \o r.val)

\* The character budget of a README excerpt (line 197)
ReadmeLimit == 2000

\* _fetch_readme (lines 186-201): None on any failure.
FetchReadme(resp) ==
    IF resp.exc # "" THEN PyNone
    ELSE IF resp.status = 200
    THEN IF Json(resp).raised THEN PyNone
         ELSE LET data == Json(resp).val
              IN  IF data.t # "dict" THEN PyNone
                  ELSE LET c == Get(data.v, "content", PyStr(<<>>))
                       IN  IF c.t # "str" THEN PyNone
                           ELSE LET dec == B64Decode(c.v)
                                IN  IF dec.raised THEN PyNone
                                    ELSE PyStr(SubSeq(dec.val, 1, Min(Len(dec.val), ReadmeLimit)))
    ELSE PyNone

ShaLen == 7
MessageLimit == 100

Prefix(s, n) == SubSeq(s, 1, Min(Len(s), n))

\* One entry of the list _fetch_recent_commits builds (lines 212-217); a commit
\* that is no dictionary, or holds no dictionary where one is read, raises.
CommitSummary(c) ==
    IF c.t # "dict" THEN Raise("AttributeError")
    ELSE LET sha    == Get(c.v, "sha", PyStr(<<>>))
             commit == Get(c.v, "commit", PyDict(EmptyDict))
         IN  IF sha.t # "str" \/ commit.t # "dict" THEN Raise("AttributeError")
             ELSE LET msg       == Get(commit.v, "message", PyStr(<<>>))
                      committer == Get(commit.v, "committer", PyDict(EmptyDict))
                      author    == Get(commit.v, "author", PyDict(EmptyDict))
                  IN  IF msg.t # "str" \/ committer.t # "dict" \/ author.t # "dict"
                      THEN Raise("AttributeError")
                      ELSE Ret(PyDict(
                             [sha     |-> PyStr(Prefix(sha.v, ShaLen)),
                              message |-> PyStr(Prefix(Split(msg.v, "\n")[1], MessageLimit)),
                              date    |-> Get(committer.v, "date", PyNone),
                              author  |-> Get(author.v, "name", PyNone)]))

RECURSIVE CommitSummaries(_)
CommitSummaries(cs) ==
    IF cs = <<>> THEN Ret(<<>>)
    ELSE LET h == CommitSummary(Head(cs))
             r == CommitSummaries(Tail(cs))
         IN  IF h.raised THEN h ELSE IF r.raised THEN r ELSE Ret(<<h.val>> \o r.val)

\* _fetch_recent_commits (lines 203-223): [] on any failure.
FetchRecentCommits(resp) ==
    IF resp.exc # "" THEN PyList(<<>>)
    ELSE IF resp.status = 200
    THEN IF Json(resp).raised THEN PyList(<<>>)
         ELSE LET commits == Json(resp).val
              IN  IF commits.t # "list" THEN PyList(<<>>)
                  ELSE LET l == CommitSummaries(commits.v)
                       IN  IF l.raised THEN PyList(<<>>) ELSE PyList(l.val)
    ELSE PyList(<<>>)

\* _fetch_languages (lines 225-236): {} on any failure, else the parsed body
\* whatever it is.
FetchLanguages(resp) ==
    IF resp.exc # "" THEN PyDict(EmptyDict)
    ELSE IF resp.status = 200
    THEN (IF Json(resp).raised THEN PyDict(EmptyDict) ELSE Json(resp).val)
    ELSE PyDict(EmptyDict)

---------------------------------------------------------------------------
(* APIEnricher: the overlay of _enrich_with_api *)

\* Faulty variant, for sensitivity of the properties: the description of the API always wins.
OverlayDescriptionAlways(repo, d) ==
    IF Truthy(Get(d, "description", PyNone))
    THEN Put(repo, "description", Get(d, "description", PyNone))
    ELSE repo

\* Lines 281-282: the description of the API is taken when the record has none.
OverlayDescription(repo, d) ==
    IF ~Truthy(Get(repo, "description", PyNone)) /\ Truthy(Get(d, "description", PyNone))
    THEN Put(repo, "description", Get(d, "description", PyNone))
    ELSE repo

\* Lines 263-282: the core metadata laid over the record.  api_data is a parsed
\* JSON body of any shape; .get on a value that is no dictionary raises.
ApplyCore(repo, api) ==
    IF api.t # "dict" THEN Raise("AttributeError")
    ELSE LET d   == api.v
             lic == Get(d, "license", PyNone)
         IN  IF Truthy(lic) /\ lic.t # "dict" THEN Raise("AttributeError")
             ELSE LET basic ==
                        [x \in DOMAIN repo \cup
                               {"stars", "forks", "watchers", "open_issues", "license",
                                "created_at", "updated_at", "pushed_at", "topics",
                                "homepage", "default_branch", "archived", "size",
                                "has_wiki", "has_pages", "has_discussions"} |->
                           CASE x = "stars" -> Get(d, "stargazers_count", Get(repo, "stars", PyInt(0)))
                             [] x = "forks" -> Get(d, "forks_count", Get(repo, "forks", PyInt(0)))
                             [] x = "watchers" -> Get(d, "watchers_count", PyInt(0))
                             [] x = "open_issues" -> Get(d, "open_issues_count", PyInt(0))
                             [] x = "license" ->
                                  IF Truthy(lic) THEN Get(lic.v, "spdx_id", PyNone) ELSE PyNone
                             [] x = "created_at" -> Get(d, "created_at", PyNone)
                             [] x = "updated_at" -> Get(d, "updated_at", PyNone)
                             [] x = "pushed_at" -> Get(d, "pushed_at", PyNone)
                             [] x = "topics" -> Get(d, "topics", PyList(<<>>))
                             [] x = "homepage" -> Get(d, "homepage", PyNone)
                             [] x = "default_branch" -> Get(d, "default_branch", PyNone)
                             [] x = "archived" -> Get(d, "archived", PyBool(FALSE))
                             [] x = "size" -> Get(d, "size", PyInt(0))
                             [] x = "has_wiki" -> Get(d, "has_wiki", PyBool(FALSE))
                             [] x = "has_pages" -> Get(d, "has_pages", PyBool(FALSE))
                             [] x = "has_discussions" -> Get(d, "has_discussions", PyBool(FALSE))
                             [] OTHER -> repo[x]]
                  IN  Ret(OverlayDescription(basic, d))

\* The bound of line 285: enumerate's index below it gets the sub-fetches.
DetailLimit == 10

\* Faulty variant, for sensitivity of the properties: the comparison of line 285 off by one.
WantsDetailsInclusive(fetch_details, idx) == fetch_details /\ idx - 1 <= DetailLimit

\* fetch_details and i < 10 (line 285), i being the 1-based index of the model.
WantsDetails(fetch_details, idx) == fetch_details /\ idx - 1 < DetailLimit

\* Faulty variant, for sensitivity of the properties: the value replaces the record.
PutIfTruthyAlone(repo, key, value) ==
    IF Truthy(value) THEN [x \in {key} |-> value] ELSE repo

\* if value: repo[key] = value (lines 288-289, 293-294, 298-299)
PutIfTruthy(repo, key, value) == IF Truthy(value) THEN Put(repo, key, value) ELSE repo

---------------------------------------------------------------------------
(* Inputs: listing documents *)

\* The h2 link of an entry block.
Link(href) == [h2 |-> TRUE, a |-> TRUE, href |-> href]
NoH2 == [h2 |-> FALSE, a |-> FALSE, href |-> <<>>]
NoAnchor == [h2 |-> TRUE, a |-> FALSE, href |-> <<>>]

TextStars == <<"4", "5", ".", "6", "k">>
TextForks == <<"1", ",", "2", "3", "4">>
TextToday == <<"3", "2", "1", " ", "s", "t", "a", "r", "s", " ", "t", "o", "d", "a", "y">>
TextInf   == <<"I", "n", "f">>
TextJunk  == <<"x", "x">>
TextBlank == <<" ">>

\* An entry block as the rendered listing shows it.
BlockWith(link, stars, forks, today, avatars) ==
    [link    |-> link,
     desc    |-> Present(<<"A", " ", "test", " ", "project">>),
     lang    |-> Present(<<"Python">>),
     stars   |-> stars,
     forks   |-> forks,
     today   |-> today,
     avatars |-> avatars]

\* Two avatar links, one of them the avatar of o1.
Block(link, stars, forks, today) ==
    BlockWith(link, stars, forks, today, << <<"@", "alice">>, <<"@", "o1">> >>)

\* A well-formed entry; its avatars show one contributor twice and the owner.
PlainBlock(owner, name) ==
    BlockWith(Link(<<"/", owner, "/", name>>),
              Present(TextStars), Present(TextForks), Present(TextToday),
              << <<"@", "alice">>, <<"@", owner>>, <<"@", "alice">> >>)

\* Blocks that differ in the identity they carry.
IdentityBlocks ==
    { PlainBlock("o1", "n1"),
      PlainBlock("o2", "n2"),
      Block(NoH2, Present(TextStars), Present(TextForks), Present(TextToday)),
      Block(NoAnchor, Present(TextStars), Missing, Missing),
      Block(Link(<<"/", "o3">>), Present(TextStars), Present(TextForks), Missing),
      Block(Link(<<"/", "o4", "/", "n4">>), Missing, Missing, Present(TextBlank)) }

\* What a count element can hold: nothing (missing), empty or blank text, text
\* that is no number, text float() reads as an infinity, a count.
CountElements(number) ==
    { Missing, Present(<<>>), Present(TextJunk), Present(TextInf), Present(number) }

\* Blocks with an identity that differ in their count elements.
CountBlocks ==
    { Block(Link(<<"/", "o1", "/", "n1">>), s, f, t) :
        s \in CountElements(TextStars),
        f \in {Missing, Present(TextForks)},
        t \in CountElements(TextToday) }

\* Count texts as the listing renders them: digits with or without a thousands
\* separator, with or without a fraction, with or without a magnitude suffix.
IntParts == { <<"0">>, <<"7">>, <<"3", "2">>, <<"4", "5">>, <<"1", ",", "2", "3", "4">> }
FracParts == { <<>>, <<".", "5">>, <<".", "3">>, <<".", "6">>, <<".", "2", "5">> }
Suffixes == { <<>>, <<"k">>, <<"K">>, <<"m">>, <<"M">> }

RenderedCounts == {n \o f \o x : n \in IntParts, f \in FracParts, x \in Suffixes}

\* Texts that are no rendered count: empty, blank-padded, symbols, a bare
\* suffix, both suffixes, two points, signs, the words float() reads as
\* special values.
OtherTexts ==
    { <<>>, <<" ", "7", " ">>, <<"x", "x">>, <<"$", "5">>, <<"k">>, <<"1", "k", "m">>,
      <<"1", ".", "2", ".", "3">>, <<"+", "3">>, <<"-", "5">>, <<"-", "1", ".", "5", "k">>,
      <<"I", "n", "f">>, <<"-", "i", "n", "f">>, <<"n", "a", "n">> }

\* Listings of one entry whose stars element holds a text of either kind.
NumberListings ==
    { <<Block(Link(<<"/", "o1", "/", "n1">>), Present(text), Missing, Missing)>> :
        text \in RenderedCounts \cup OtherTexts }

\* Avatar links of an entry of o1: none; the owner alone; one contributor
\* twice; a link without an image and an image whose alt is a bare "@"; six
\* contributors with the owner and a repetition among them, in two orders.
AvatarLists ==
    { <<>>,
      << <<"@", "o1">> >>,
      << <<"@", "alice">>, <<"@", "alice">> >>,
      << <<>>, <<"@">>, <<"@", "bob">> >>,
      << <<"@", "u1">>, <<"@", "u2">>, <<"@", "o1">>, <<"@", "u3">>, <<"@", "u1">>,
         <<"@", "u4">>, <<"@", "u5">>, <<"@", "u6">> >>,
      << <<"@", "u6">>, <<"@", "u5">>, <<"@", "u4">>, <<"@", "o1">>, <<"@", "u3">>,
         <<"@", "u2">>, <<"@", "u1">>, <<"@", "o1">> >> }

\* Listings of one entry that differ in the avatar links.
AvatarListings ==
    { <<BlockWith(Link(<<"/", "o1", "/", "n1">>), Present(TextStars), Present(TextForks),
                  Present(TextToday), avatars)>> : avatars \in AvatarLists }

MaxBlocks == 3
MaxCountBlocks == 1
MaxRecords == 2
MaxExtra == 1

SeqsUpTo(S, n) == UNION {[1..m -> S] : m \in 0..n}

RepoNames ==
    <<"r01", "r02", "r03", "r04", "r05", "r06", "r07", "r08", "r09", "r10",
      "r11", "r12", "r13", "r14", "r15", "r16">>

\* A listing of n well-formed entries with distinct names.
PlainListing(n) == [j \in 1..n |-> PlainBlock("o2", RepoNames[j])]

\* Listings for the parse stage: any interleaving of blocks with and without
\* identity, and blocks with every combination of count elements.
ParseListings ==
    SeqsUpTo(IdentityBlocks, MaxBlocks) \cup SeqsUpTo(CountBlocks, MaxCountBlocks)

\* Listings for the enrichment stage: a few well-formed entries.
EnrichListings == {PlainListing(n) : n \in 1..MaxRecords}

\* A listing longer than the sub-fetch bound.
TopListings == {PlainListing(DetailLimit + MaxExtra)}

---------------------------------------------------------------------------
(* Inputs: responses of the secondary API *)

NominalRepoBody ==
    PyDict([stargazers_count  |-> PyInt(46000),
            forks_count       |-> PyInt(1300),
            watchers_count    |-> PyInt(46000),
            open_issues_count |-> PyInt(12),
            license           |-> PyDict([spdx_id |-> PyStr(<<"MIT">>)]),
            created_at        |-> PyStr(<<"2020-01-01T00:00:00Z">>),
            updated_at        |-> PyStr(<<"2026-01-01T00:00:00Z">>),
            pushed_at         |-> PyStr(<<"2026-01-02T00:00:00Z">>),
            topics            |-> PyList(<< <<"ai">>, <<"cli">> >>),
            homepage          |-> PyNone,
            default_branch    |-> PyStr(<<"main">>),
            archived          |-> PyBool(FALSE),
            size              |-> PyInt(2048),
            has_wiki          |-> PyBool(TRUE),
            has_pages         |-> PyBool(FALSE),
            has_discussions   |-> PyBool(TRUE),
            description       |-> PyStr(<<"API", " ", "description">>)])

RateLimitBody == PyDict([message |-> PyStr(<<"API rate limit exceeded">>)])

NominalCore == Http(200, <<NominalRepoBody>>)

CoreResponses ==
    { NominalCore,
      Http(403, <<RateLimitBody>>),
      Http(500, <<>>),
      NetError("ConnectionError"),
      NetError("Timeout"),
      Http(200, <<>>),
      Http(200, <<PyDict(EmptyDict)>>),
      Http(200, <<PyList(<<PyInt(1)>>)>>),
      Http(200, <<PyDict([stargazers_count |-> PyInt(7),
                          license |-> PyStr(<<"MIT">>)])>>) }

NominalReadme == Http(200, <<PyDict([content |-> PyStr(<<"IyBI", "aSEK">>)])>>)

ReadmeResponses ==
    { NominalReadme,
      Http(200, <<PyDict([encoding |-> PyStr(<<"base64">>)])>>),
      Http(200, <<PyDict([content |-> PyStr(<<"IyBI", "****">>)])>>),
      NetError("Timeout") }

Commit(sha, message) ==
    PyDict([sha    |-> PyStr(sha),
            commit |-> PyDict([message   |-> PyStr(message),
                               committer |-> PyDict([date |-> PyStr(<<"2026-01-02">>)]),
                               author    |-> PyDict([name |-> PyStr(<<"alice">>)])])])

NominalCommits ==
    Http(200, <<PyList(<<Commit(<<"a", "b", "c", "d", "e", "f", "0", "1", "2">>,
                                <<"Fix", " ", "bug", "\n", "details">>),
                         Commit(<<"9", "8", "7">>, <<"Initial">>)>>)>>)

CommitsResponses ==
    { NominalCommits,
      Http(200, <<PyList(<<>>)>>),
      Http(200, <<PyList(<<PyStr(<<"x">>)>>)>>),
      NetError("ConnectionError") }

NominalLanguages == Http(200, <<PyDict([Python |-> PyInt(1000), C |-> PyInt(10)])>>)

LanguagesResponses ==
    { NominalLanguages,
      Http(200, <<PyDict(EmptyDict)>>),
      Http(500, <<>>) }

\* n topics, in the order the API lists them.
Topics(n) == [j \in 1..n |-> <<"topic", RepoNames[j]>>]

\* Answers of the core metadata endpoint that differ in what they supply: every
\* field; counts and a null description, no forks_count; an empty description;
\* more topics than a record is meant to keep; a null count.
OverlayResponses ==
    { NominalCore,
      Http(403, <<RateLimitBody>>),
      Http(200, <<PyDict([stargazers_count |-> PyInt(50),
                          description      |-> PyNone])>>),
      Http(200, <<PyDict([forks_count |-> PyInt(60),
                          description |-> PyStr(<<>>)])>>),
      Http(200, <<PyDict([stargazers_count |-> PyInt(70),
                          topics           |-> PyList(Topics(11))])>>),
      Http(200, <<PyDict([stargazers_count  |-> PyNone,
                          open_issues_count |-> PyInt(3)])>>) }

\* The answers the core metadata endpoint may give, by the name of the set.
CoreAnswers(name) == IF name = "overlay" THEN OverlayResponses ELSE CoreResponses

\* An answer of the commits endpoint that holds one commit more than the
\* request asks for with per_page, each with a full-length sha and a first
\* line longer than a summary keeps.
ManyCommits ==
    Http(200, <<PyList([n \in 1..6 |->
                          Commit([c \in 1..40 |-> IF c = n THEN "b" ELSE "a"],
                                 [c \in 1..(MessageLimit + 1) |-> "x"] \o <<"\n", "body">>)])>>)

\* The answers the commits endpoint may give, by the name of the set.
CommitsAnswers(name) ==
    IF name = "overlay" THEN CommitsResponses \cup {ManyCommits} ELSE CommitsResponses

\* An entry block without the description paragraph.
Undescribed(block) == [block EXCEPT !.desc = Missing]

\* Listings for the overlay: entries with and without a description.
OverlayListings ==
    UNION {[1..n -> {PlainBlock("o5", "n5"), Undescribed(PlainBlock("o6", "n6"))}] :
             n \in 1..MaxRecords}

\* Answers to the listing request: the document, or a failure.
ListingResponses(doc) ==
    { Http(200, <<doc>>), Http(404, <<>>), Http(429, <<>>), Http(500, <<>>),
      NetError("ConnectionError"), NetError("Timeout") }

---------------------------------------------------------------------------
(* ListingFetcher: TrendingScraper._build_url *)

\* config.GITHUB_TRENDING_URL
BaseUrl == <<"https://github.com/trending">>

\* '&'.join(params)
RECURSIVE Join(_, _)
Join(parts, sep) ==
    IF parts = <<>> THEN <<>>
    ELSE IF Len(parts) = 1 THEN parts[1]
    ELSE parts[1] \o <<sep>> \o Join(Tail(parts), sep)

\* Lines 36-38: the base with the language segment.
WithLanguage(url, language) ==
    IF Truthy(language) THEN url \o <<"/">> \o language.v ELSE url

\* Faulty variant, for sensitivity of the properties: the daily window is encoded like the others.
SinceParamsAlways(since) ==
    IF Truthy(since) THEN << <<"since", "=">> \o since.v >> ELSE <<>>

\* Lines 39-41: the query parameters.
SinceParams(since) ==
    IF Truthy(since) /\ since # PyStr(<<"daily">>)
    THEN << <<"since", "=">> \o since.v >>
    ELSE <<>>

\* Lines 42-44: the query joined to the path.
WithParams(url, params) ==
    IF params # <<>> THEN url \o <<"?">> \o Join(params, "&") ELSE url

\* _build_url
BuildUrl(s) == WithParams(WithLanguage(BaseUrl, s.language), SinceParams(s.since))

\* The scraper fetch_trending builds when called without arguments (line 306).
DefaultScraper == [language |-> PyNone, since |-> PyStr(<<"daily">>)]

\* Scrapers for every language filter and time window: no filter, an empty
\* one, a language; the three windows of the command line and an empty one.
Scrapers ==
    [language : {PyNone, PyStr(<<>>), PyStr(<<"python">>)},
     since    : {PyStr(<<"daily">>), PyStr(<<"weekly">>), PyStr(<<"monthly">>), PyStr(<<>>)}]

---------------------------------------------------------------------------
(* The run: fetch_trending -> TrendingScraper.scrape *)

\* _fetch_page (lines 49-52): raise_for_status raises for every 4xx and 5xx.
FetchPageBody(resp) ==
    IF resp.exc # "" THEN Raise(resp.exc)
    ELSE IF resp.status >= 400 THEN Raise("HTTPError")
    ELSE Ret(resp.body[1])

\* Whether the enrichment stage runs (line 162); scrape's enrich_with_api
\* parameter keeps its default.
EnrichWithApi == TRUE

\* Faulty variant, for sensitivity of the properties: the token is not looked at.
EnrichEnabledAlways(tok) == EnrichWithApi

EnrichEnabled(tok) == EnrichWithApi /\ tok # <<>>

\* _enrich_with_api's fetch_details parameter keeps its default.
FetchDetails == TRUE

\* No request answered yet.
NoResponse == Http(0, <<>>)

NoRequests == [core |-> <<>>, readme |-> <<>>, commits |-> <<>>, languages |-> <<>>]

\* The state after TrendingScraper(language, since) was built: the scraper one
\* of scrapers, the core metadata endpoint answering from answers, the page one
\* of listings.
InitScraper(scrapers, answers, listings, faults) ==
    /\ scraper \in scrapers
    /\ apiAnswers = answers
    /\ target = <<>>
    /\ token \in {<<>>, <<"ghp_secret">>}
    /\ listing \in listings
    /\ budget = faults
    /\ pc = "fetch"
    /\ attempts = 0
    /\ waits = 0
    /\ lastFetch = NoResponse
    /\ articles = <<>>
    /\ k = 1
    /\ skipped = {}
    /\ repositories = <<>>
    /\ baseline = <<>>
    /\ i = 1
    /\ epc = "core"
    /\ enriched = <<>>
    /\ log = <<>>
    /\ error = ""

\* run_report's defaults for push_to_repo and output_local (src/main.py lines 23-24).
DefaultOptions == [push_to_repo |-> TRUE, output_local |-> FALSE]

\* The state when run_report is entered with one of opts.
InitReportWith(opts, behaviour) ==
    /\ options \in opts
    /\ services = behaviour
    /\ rpc = "fetch"
    /\ steps = <<>>
    /\ result = ""

\* A run of run_report with its default options, the LLM and the data
\* repository answering well.
InitRun(scrapers, answers, listings, faults) ==
    /\ InitScraper(scrapers, answers, listings, faults)
    /\ InitReportWith({DefaultOptions}, "nominal")

\* A run of fetch_trending() with its default arguments.
InitWith(listings, faults) == InitRun({DefaultScraper}, "varied", listings, faults)

\* One attempt of _fetch_page under its retry decorator (lines 46-52, 146-149).
\* The retry state belongs to the call: it is gone once the page is returned,
\* and it is what the RetryError reports when the last attempt failed.
FetchPage ==
    /\ pc = "fetch"
    /\ target' = BuildUrl(scraper)
    /\ \E resp \in ListingResponses(listing) :
         LET r    == FetchPageBody(resp)
             sent == attempts + 1
         IN  IF ~r.raised
             THEN /\ articles' = r.val
                  /\ pc' = IF r.val = <<>> THEN "parsed" ELSE "parse"
                  /\ attempts' = 0
                  /\ waits' = 0
                  /\ lastFetch' = NoResponse
                  /\ error' = error
             ELSE /\ attempts' = sent
                  /\ lastFetch' = resp
                  /\ waits' = IF RetryAgain(r, sent) THEN waits + 1 ELSE waits
                  /\ pc' = IF RetryAgain(r, sent) THEN "fetch" ELSE "raised"
                  /\ error' = IF RetryAgain(r, sent) THEN error ELSE "RetryError"
                  /\ articles' = articles
    /\ UNCHANGED <<options, services, rpc, steps, result>>
    /\ UNCHANGED <<scraper, apiAnswers, token, listing, budget, k, skipped,
                   repositories, baseline, i, epc, enriched, log>>

\* Lines 153-159 for the outcome r of _parse_repository: the record is kept
\* when it carries a full_name, and dropped when it does not or when the call
\* raised.
KeepOrSkip(r) ==
    IF r.raised
    THEN /\ skipped' = skipped \cup {<<k, r.exc>>}
         /\ repositories' = repositories
    ELSE IF Truthy(Get(r.val, "full_name", PyNone))
    THEN /\ repositories' = Append(repositories, r.val)
         /\ skipped' = skipped
    ELSE /\ skipped' = skipped \cup {<<k, "no full_name">>}
         /\ repositories' = repositories

\* One iteration of the parse loop (lines 152-159).
ParseArticle ==
    /\ pc = "parse"
    /\ k <= Len(articles)
    /\ \E bb \in BuiltByChoices(articles[k]) :
         KeepOrSkip(ParseRepository(articles[k], bb))
    /\ k' = k + 1
    /\ pc' = IF k = Len(articles) THEN "parsed" ELSE "parse"
    /\ UNCHANGED <<options, services, rpc, steps, result>>
    /\ UNCHANGED <<scraper, apiAnswers, target, token, listing, budget,
                   attempts, waits, lastFetch, articles, baseline, i, epc,
                   enriched, log, error>>

\* Lines 161-166: enrich when a token is configured, else return the list.
AfterParse ==
    /\ pc = "parsed"
    /\ IF EnrichEnabled(token)
       THEN /\ pc' = "enrich"
            /\ baseline' = repositories
            /\ log' = [j \in 1..Len(repositories) |-> NoRequests]
       ELSE /\ pc' = "done"
            /\ UNCHANGED <<baseline, log>>
    /\ i' = 1
    /\ epc' = "core"
    /\ enriched' = <<>>
    /\ UNCHANGED <<options, services, rpc, steps, result>>
    /\ UNCHANGED <<scraper, apiAnswers, target, token, listing, budget,
                   attempts, waits, lastFetch, articles, k, skipped,
                   repositories, error>>

\* A response costs one unit of the budget unless it is the nominal one.
Spend(resp, nominal) == IF resp = nominal THEN budget ELSE budget - 1
Affordable(resp, nominal) == resp = nominal \/ budget > 0

\* Faulty variant, for sensitivity of the properties: the record is put at the front of the list.
NextRecordFront(repos) ==
    /\ enriched' = <<repos[i]>> \o enriched
    /\ i' = i + 1
    /\ epc' = "core"

\* The end of one iteration of the enrichment loop (line 301).
NextRecord(repos) ==
    /\ enriched' = Append(enriched, repos[i])
    /\ i' = i + 1
    /\ epc' = "core"

\* Lines 252-285 for record i: one request of _fetch_repo_api under its retry
\* decorator, then the overlay of the core metadata.
EnrichCore ==
    /\ pc = "enrich"
    /\ epc = "core"
    /\ i <= Len(repositories)
    /\ IF ~Truthy(Get(repositories[i], "full_name", PyNone))
       THEN /\ NextRecord(repositories)
            /\ UNCHANGED <<budget, repositories, log, pc, error>>
       ELSE \E resp \in CoreAnswers(apiAnswers) :
              /\ Affordable(resp, NominalCore)
              /\ budget' = Spend(resp, NominalCore)
              /\ log' = [log EXCEPT ![i].core = Append(@, resp)]
              /\ LET r    == FetchRepoApiBody(resp)
                     sent == Len(log[i].core) + 1
                 IN  IF RetryAgain(r, sent)
                     THEN UNCHANGED <<repositories, i, epc, enriched, pc, error>>
                     ELSE IF r.raised
                     THEN /\ pc' = "raised"
                          /\ error' = "RetryError"
                          /\ UNCHANGED <<repositories, i, epc, enriched>>
                     ELSE IF ~Truthy(r.val)
                     THEN /\ NextRecord(repositories)
                          /\ UNCHANGED <<repositories, pc, error>>
                     ELSE LET o == ApplyCore(repositories[i], r.val)
                          IN  IF o.raised
                              THEN /\ pc' = "raised"
                                   /\ error' = o.exc
                                   /\ UNCHANGED <<repositories, i, epc, enriched>>
                              ELSE LET repos == [repositories EXCEPT ![i] = o.val]
                                   IN  /\ repositories' = repos
                                       /\ UNCHANGED <<pc, error>>
                                       /\ IF WantsDetails(FetchDetails, i)
                                          THEN /\ epc' = "readme"
                                               /\ UNCHANGED <<i, enriched>>
                                          ELSE NextRecord(repos)
    /\ UNCHANGED <<options, services, rpc, steps, result>>
    /\ UNCHANGED <<scraper, apiAnswers, target, token, listing, attempts, waits,
                   lastFetch, articles, k, skipped, baseline>>

\* Faulty variant, for sensitivity of the properties: a README that could not be fetched ends the iteration.
EnrichReadmeGivesUp ==
    /\ pc = "enrich"
    /\ epc = "readme"
    /\ \E resp \in ReadmeResponses :
         /\ Affordable(resp, NominalReadme)
         /\ budget' = Spend(resp, NominalReadme)
         /\ log' = [log EXCEPT ![i].readme = Append(@, resp)]
         /\ IF Truthy(FetchReadme(resp))
            THEN /\ repositories' = [repositories EXCEPT
                                       ![i] = Put(@, "readme_excerpt", FetchReadme(resp))]
                 /\ epc' = "commits"
                 /\ UNCHANGED <<i, enriched>>
            ELSE /\ repositories' = repositories
                 /\ NextRecord(repositories)
    /\ UNCHANGED <<options, services, rpc, steps, result>>
    /\ UNCHANGED <<scraper, apiAnswers, target, token, listing, pc, attempts,
                   waits, lastFetch, articles, k, skipped, baseline, error>>

\* Lines 287-289.
EnrichReadme ==
    /\ pc = "enrich"
    /\ epc = "readme"
    /\ \E resp \in ReadmeResponses :
         /\ Affordable(resp, NominalReadme)
         /\ budget' = Spend(resp, NominalReadme)
         /\ log' = [log EXCEPT ![i].readme = Append(@, resp)]
         /\ repositories' = [repositories EXCEPT
                               ![i] = PutIfTruthy(@, "readme_excerpt", FetchReadme(resp))]
    /\ epc' = "commits"
    /\ UNCHANGED <<options, services, rpc, steps, result>>
    /\ UNCHANGED <<scraper, apiAnswers, target, token, listing, pc, attempts,
                   waits, lastFetch, articles, k, skipped, baseline, i,
                   enriched, error>>

\* Lines 292-294.
EnrichCommits ==
    /\ pc = "enrich"
    /\ epc = "commits"
    /\ \E resp \in CommitsAnswers(apiAnswers) :
         /\ Affordable(resp, NominalCommits)
         /\ budget' = Spend(resp, NominalCommits)
         /\ log' = [log EXCEPT ![i].commits = Append(@, resp)]
         /\ repositories' = [repositories EXCEPT
                               ![i] = PutIfTruthy(@, "recent_commits", FetchRecentCommits(resp))]
    /\ epc' = "languages"
    /\ UNCHANGED <<options, services, rpc, steps, result>>
    /\ UNCHANGED <<scraper, apiAnswers, target, token, listing, pc, attempts,
                   waits, lastFetch, articles, k, skipped, baseline, i,
                   enriched, error>>

\* Lines 297-301.
EnrichLanguages ==
    /\ pc = "enrich"
    /\ epc = "languages"
    /\ \E resp \in LanguagesResponses :
         /\ Affordable(resp, NominalLanguages)
         /\ budget' = Spend(resp, NominalLanguages)
         /\ log' = [log EXCEPT ![i].languages = Append(@, resp)]
         /\ LET repos == [repositories EXCEPT
                            ![i] = PutIfTruthy(@, "languages", FetchLanguages(resp))]
            IN  /\ repositories' = repos
                /\ NextRecord(repos)
    /\ UNCHANGED <<options, services, rpc, steps, result>>
    /\ UNCHANGED <<scraper, apiAnswers, target, token, listing, pc, attempts,
                   waits, lastFetch, articles, k, skipped, baseline, error>>

\* Lines 303 and 164-166: the enriched list is what scrape returns.
EnrichReturn ==
    /\ pc = "enrich"
    /\ epc = "core"
    /\ i > Len(repositories)
    /\ repositories' = enriched
    /\ pc' = "done"
    /\ UNCHANGED <<options, services, rpc, steps, result>>
    /\ UNCHANGED <<scraper, apiAnswers, target, token, listing, budget,
                   attempts, waits, lastFetch, articles, k, skipped, baseline,
                   i, epc, enriched, log, error>>

---------------------------------------------------------------------------
(* The run: run_report (src/main.py) *)

\* Faulty variant, for sensitivity of the properties: an empty list goes on to the analysis.
NoReposOnlyWhenRaised(raised, repos) == raised

\* Step 1 gave nothing to report on (src/main.py lines 55-64): fetch_trending
\* raised, or the list it returned is empty.
NoRepos(raised, repos) == raised \/ ~Truthy(PyList(repos))

\* What LLMAnalyzer() and generate_daily_report may do.
LlmOutcomes(behaviour) == IF behaviour = "nominal" THEN {"ok"} ELSE {"ok", "raises"}

\* What the push step may do: DataPusher() raises, push_all raises,
\* update_readme raises, push_all reports a file that failed, all is pushed.
PushOutcomes(behaviour) ==
    IF behaviour = "nominal" THEN {"ok"}
    ELSE {"ok", "init_raises", "push_raises", "readme_raises", "partial"}

\* The position of record j in sorted(repos, key=stars_today, reverse=True)
\* (src/main.py line 120); the sort is stable. stars_today is the integer the
\* parser stored: the overlay of the core metadata leaves it alone.
Rank(repos, j) ==
    1 + Cardinality({m \in 1..Len(repos) :
                       \/ repos[m]["stars_today"].v > repos[j]["stars_today"].v
                       \/ m < j /\ repos[m]["stars_today"].v = repos[j]["stars_today"].v})

\* generate_basic_report (src/main.py lines 109-190) raises when a count it
\* formats with thousands separators is no number: stars of the first 12
\* records of the table, forks of the first 5 of the details.
BasicReportRaises(repos) ==
    \E j \in 1..Len(repos) :
      \/ Rank(repos, j) <= 12 /\ Get(repos[j], "stars", PyInt(0)).t \notin {"int", "bool"}
      \/ Rank(repos, j) <= 5 /\ Get(repos[j], "forks", PyInt(0)).t \notin {"int", "bool"}

\* Step 1 of run_report once fetch_trending has ended (src/main.py lines
\* 55-64): return False when it raised or found nothing.
ReportFetched ==
    /\ rpc = "fetch"
    /\ pc \in {"done", "raised"}
    /\ IF NoRepos(pc = "raised", repositories)
       THEN /\ rpc' = "returned"
            /\ result' = "False"
       ELSE /\ rpc' = "analyze"
            /\ result' = result
    /\ UNCHANGED <<options, services, steps>>
    /\ UNCHANGED scrapeVars

\* Step 2 (src/main.py lines 66-76): the LLM report, or the basic report when
\* the analysis raised; an exception of generate_basic_report leaves run_report.
Analyze ==
    /\ rpc = "analyze"
    /\ \E outcome \in LlmOutcomes(services) :
         IF outcome = "ok"
         THEN /\ steps' = Append(steps, "analyze")
              /\ rpc' = "save"
              /\ result' = result
         ELSE /\ steps' = steps \o <<"analyze", "basic_report">>
              /\ rpc' = IF BasicReportRaises(repositories) THEN "returned" ELSE "save"
              /\ result' = IF BasicReportRaises(repositories) THEN "raised" ELSE result
    /\ UNCHANGED <<options, services>>
    /\ UNCHANGED scrapeVars

\* Step 3 (src/main.py lines 78-85): save_local when asked for; an exception
\* of it is only reported.
SaveLocal ==
    /\ rpc = "save"
    /\ steps' = IF options.output_local THEN Append(steps, "save_local") ELSE steps
    /\ rpc' = "push"
    /\ UNCHANGED <<options, services, result>>
    /\ UNCHANGED scrapeVars

\* Step 4 and the return (src/main.py lines 87-106).
PushToRepo ==
    /\ rpc = "push"
    /\ IF options.push_to_repo
       THEN \E outcome \in PushOutcomes(services) :
              /\ steps' = steps \o (CASE outcome = "init_raises" -> <<>>
                                      [] outcome = "push_raises" -> <<"push_all">>
                                      [] OTHER -> <<"push_all", "update_readme">>)
              /\ result' = IF outcome = "ok" THEN "True" ELSE "False"
       ELSE /\ steps' = steps
            /\ result' = "True"
    /\ rpc' = "returned"
    /\ UNCHANGED <<options, services>>
    /\ UNCHANGED scrapeVars

Next ==
    \/ FetchPage
    \/ ParseArticle
    \/ AfterParse
    \/ EnrichCore
    \/ EnrichReadme
    \/ EnrichCommits
    \/ EnrichLanguages
    \/ EnrichReturn
    \/ ReportFetched
    \/ Analyze
    \/ SaveLocal
    \/ PushToRepo

\* Unlimited for the listings it is used with: four requests per record.
AllFaults == 4 * MaxRecords
MaxFaults == 1

\* Short listings of every kind of block, every response of the secondary API
\* the nominal one.
InitParse == InitWith(ParseListings, 0)

\* A few well-formed entries, every response of the secondary API possible.
InitEnrich == InitWith(EnrichListings, AllFaults)

\* A listing longer than the sub-fetch bound, enrichment with few deviations.
InitTop == InitWith(TopListings, MaxFaults)

Init == InitParse \/ InitEnrich

\* run_report with every combination of --no-push and --local, the LLM and
\* the data repository behaving in every way, on listings with no entry, with
\* one entry of every kind, and with a few well-formed entries.
InitReport ==
    /\ InitScraper({DefaultScraper}, "overlay",
                   SeqsUpTo(IdentityBlocks, 1) \cup EnrichListings, MaxFaults)
    /\ InitReportWith([push_to_repo : BOOLEAN, output_local : BOOLEAN], "any")

\* One entry with every count text, every response of the secondary API the
\* nominal one.
InitNumber == InitWith(NumberListings, 0)

\* One entry with every list of avatar links.
InitBuiltBy == InitWith(AvatarListings, 0)

\* One well-formed entry, requested with every language filter and window.
InitUrl == InitRun(Scrapers, "varied", {PlainListing(1)}, 0)

\* Entries with and without a description, the core metadata endpoint
\* answering with bodies that supply different fields, few deviations.
InitOverlay == InitRun({DefaultScraper}, "overlay", OverlayListings, MaxFaults)

Spec == Init /\ [][Next]_vars

SpecTop == InitTop /\ [][Next]_vars

SpecOverlay == InitOverlay /\ [][Next]_vars

SpecNumber == InitNumber /\ [][Next]_vars

SpecBuiltBy == InitBuiltBy /\ [][Next]_vars

SpecUrl == InitUrl /\ [][Next]_vars

SpecReport == InitReport /\ [][Next]_vars

---------------------------------------------------------------------------
(* Properties *)

\* An entry block with a resolvable owner/name link: an h2 holding a link whose
\* href, outer slashes removed, has at least two segments.
HasIdentity(article) ==
    /\ article.link.h2
    /\ article.link.a
    /\ Len(Split(Strip(article.link.href, {"/"}), "/")) >= 2

\* The "owner/name" an entry block links to.
LinkedName(article) ==
    LET parts == Split(Strip(article.link.href, {"/"}), "/")
    IN  parts[1] \o <<"/">> \o parts[2]

\* The names the blocks with an identity link to, in document order.
RECURSIVE ResolvedNames(_)
ResolvedNames(arts) ==
    IF arts = <<>> THEN <<>>
    ELSE (IF HasIdentity(Head(arts)) THEN <<LinkedName(Head(arts))>> ELSE <<>>)
         \o ResolvedNames(Tail(arts))

NamesOf(records) == [j \in 1..Len(records) |-> records[j]["full_name"].v]

Dropped == {s[1] : s \in skipped}

\* The indices of the blocks the parse loop kept, ascending.
Kept == SelectSeq([j \in 1..Len(articles) |-> j], LAMBDA j : j \notin Dropped)

BaselineFields ==
    {"owner", "name", "full_name", "url", "description", "language", "stars",
     "forks", "stars_today", "built_by"}

\* C1: when the parse loop has ended, the list holds exactly one record per
\* block with a resolvable owner/name link, in the order of those blocks.
C1_RecordsAreResolvedBlocks ==
    pc = "parsed" => NamesOf(repositories) = ResolvedNames(articles)

\* C2: when the parse loop has ended, a block was dropped if and only if its
\* identity did not resolve, whatever its count elements hold, and a record's
\* stars, forks and stars_today are 0 where the block has no such element.
C2_CountElementsNeverDrop ==
    pc = "parsed" =>
      /\ \A j \in 1..Len(articles) : HasIdentity(articles[j]) <=> j \notin Dropped
      /\ \A m \in 1..Len(repositories) :
           /\ articles[Kept[m]].stars = Missing => repositories[m]["stars"] = PyInt(0)
           /\ articles[Kept[m]].forks = Missing => repositories[m]["forks"] = PyInt(0)
           /\ articles[Kept[m]].today = Missing => repositories[m]["stars_today"] = PyInt(0)

\* A network error, a timeout or a 5xx answer.
TransientFailure(resp) ==
    resp.exc \in {"ConnectionError", "Timeout"} \/ resp.status >= 500

\* C3: the listing request is made at most 3 times; once the third attempt has
\* failed the run has ended with the one error of the retry wrapper, and no
\* article was parsed, no record built and no enrichment request sent.
C3_FetchGivesUpAfterThree ==
    /\ attempts <= 3
    /\ pc = "fetch" => attempts < 3
    /\ attempts = 3 =>
         /\ pc = "raised"
         /\ error = "RetryError"
         /\ articles = <<>> /\ k = 1 /\ skipped = {}
         /\ repositories = <<>> /\ enriched = <<>> /\ log = <<>>

C3_Witness ==
    /\ pc = "raised"
    /\ attempts = 3
    /\ waits = 2
    /\ TransientFailure(lastFetch)

RateLimited(j) == log[j].core # <<>> /\ log[j].core[Len(log[j].core)].status = 403

\* C5: a record whose core metadata request was answered with 403 leaves the
\* enrichment loop equal to what entered it, holding the baseline fields only,
\* and that answer raises no error.
C5_RateLimitedKeepsBaseline ==
    /\ \A j \in 1..Len(enriched) :
         RateLimited(j) =>
           /\ enriched[j] = baseline[j]
           /\ DOMAIN enriched[j] = BaselineFields
    /\ (pc = "raised" /\ log # <<>>) => ~RateLimited(i)

C5_Witness ==
    /\ pc = "done"
    /\ Len(repositories) = 2
    /\ Len(log) = 2
    /\ RateLimited(1)
    /\ ~RateLimited(2)
    /\ "watchers" \in DOMAIN repositories[2]
    /\ "watchers" \notin DOMAIN repositories[1]

\* C6: the list the enrichment loop builds holds, at each position, the record
\* that entered the loop at that position, and the list returned has the
\* length of the list handed in.
C6_EnrichmentKeepsOrder ==
    /\ pc = "enrich" =>
         /\ Len(enriched) = i - 1
         /\ NamesOf(enriched) = SubSeq(NamesOf(baseline), 1, i - 1)
    /\ (pc = "done" /\ EnrichEnabled(token)) =>
         NamesOf(repositories) = NamesOf(baseline)

C6_Witness ==
    /\ pc = "done"
    /\ EnrichEnabled(token)
    /\ Len(repositories) = 2
    /\ repositories[1]["full_name"] # repositories[2]["full_name"]
    /\ "watchers" \notin DOMAIN repositories[1]
    /\ "readme_excerpt" \in DOMAIN repositories[2]

\* C7: a record is left at baseline after failed core metadata requests only
\* when 3 requests were made for it.
C7_CoreCallRetried ==
    \A j \in 1..Len(enriched) :
      (log[j].core # <<>> /\ \A n \in 1..Len(log[j].core) : TransientFailure(log[j].core[n]))
        => Len(log[j].core) = 3

NoSubFetch(j) ==
    log[j].readme = <<>> /\ log[j].commits = <<>> /\ log[j].languages = <<>>

\* C8: no README, commits or languages request is ever sent for a record at
\* position 10 or later (counted from 0).
C8_OnlyTopTenGetDetails ==
    /\ \A j \in 1..Len(log) : j - 1 >= 10 => NoSubFetch(j)
    /\ (pc = "enrich" /\ epc # "core") => i - 1 < 10

C8_Witness ==
    /\ pc = "done"
    /\ Len(repositories) > 10
    /\ "watchers" \in DOMAIN repositories[11]
    /\ ~NoSubFetch(10)
    /\ "languages" \in DOMAIN repositories[10]

Succeeded(resp) == resp.exc = "" /\ resp.status = 200 /\ resp.body # <<>>

ReadmeHasContent(resp) ==
    /\ Succeeded(resp)
    /\ resp.body[1].t = "dict"
    /\ "content" \in DOMAIN resp.body[1].v
    /\ ~B64Decode(resp.body[1].v["content"].v).raised
    /\ B64Decode(resp.body[1].v["content"].v).val # <<>>

CommitsHaveContent(resp) ==
    /\ Succeeded(resp)
    /\ resp.body[1].t = "list"
    /\ resp.body[1].v # <<>>
    /\ \A n \in 1..Len(resp.body[1].v) : resp.body[1].v[n].t = "dict"

LanguagesHaveContent(resp) == Succeeded(resp) /\ Truthy(resp.body[1])

\* C9: for a record among the first 10 whose core metadata was laid over it,
\* each of the three sub-fetches was requested exactly once, and each overlay
\* field is present exactly when its own request succeeded with content.
C9_SubFetchesIndependent ==
    \A j \in 1..Len(enriched) :
      (j - 1 < 10 /\ "watchers" \in DOMAIN enriched[j]) =>
        /\ Len(log[j].readme) = 1
        /\ Len(log[j].commits) = 1
        /\ Len(log[j].languages) = 1
        /\ "readme_excerpt" \in DOMAIN enriched[j] <=> ReadmeHasContent(log[j].readme[1])
        /\ "recent_commits" \in DOMAIN enriched[j] <=> CommitsHaveContent(log[j].commits[1])
        /\ "languages" \in DOMAIN enriched[j] <=> LanguagesHaveContent(log[j].languages[1])

C9_Witness ==
    /\ pc = "done"
    /\ Len(repositories) = 2
    /\ Len(log) = 2
    /\ DOMAIN repositories[1] \cap {"readme_excerpt", "recent_commits", "languages"}
         = {"recent_commits"}
    /\ DOMAIN repositories[2] \cap {"readme_excerpt", "recent_commits", "languages"}
         = {"readme_excerpt", "languages"}
    /\ ~ReadmeHasContent(log[1].readme[1])
    /\ ~CommitsHaveContent(log[2].commits[1])

\* C10: the only error that leaves a run is the one of the listing fetch: no
\* answer of the secondary API makes the enrichment loop raise.
C10_EnrichmentNeverRaises ==
    pc = "raised" => (log = <<>> /\ error = "RetryError" /\ attempts = 3)

\* The record at position j had the core metadata laid over it: its request was
\* answered with a non-empty JSON object.
Overlaid(j) ==
    /\ log[j].core # <<>>
    /\ Succeeded(log[j].core[Len(log[j].core)])
    /\ log[j].core[Len(log[j].core)].body[1].t = "dict"
    /\ Truthy(log[j].core[Len(log[j].core)].body[1])

\* The JSON object the core metadata request of record j was answered with.
ApiBody(j) == log[j].core[Len(log[j].core)].body[1].v

\* The field of the core metadata that is laid over a baseline field.
ApiKey(f) ==
    CASE f = "stars" -> "stargazers_count"
      [] f = "forks" -> "forks_count"
      [] f = "description" -> "description"
      [] OTHER -> "-"

\* The answer for record j supplied a value for baseline field f.
Supplied(j, f) == Overlaid(j) /\ ApiKey(f) \in DOMAIN ApiBody(j)

C12_DescriptionOnlyIfEmpty ==
    \A j \in 1..Len(enriched) :
      Overlaid(j) =>
        /\ Truthy(baseline[j]["description"]) =>
             enriched[j]["description"] = baseline[j]["description"]
        /\ (~Truthy(baseline[j]["description"])
              /\ Truthy(Get(ApiBody(j), "description", PyNone))) =>
             enriched[j]["description"] = ApiBody(j)["description"]
        /\ "stargazers_count" \in DOMAIN ApiBody(j) =>
             enriched[j]["stars"] = ApiBody(j)["stargazers_count"]
        /\ "forks_count" \in DOMAIN ApiBody(j) =>
             enriched[j]["forks"] = ApiBody(j)["forks_count"]

C12_Witness ==
    /\ pc = "done"
    /\ Len(enriched) = 2
    /\ Overlaid(1) /\ Overlaid(2)
    /\ Truthy(baseline[1]["description"])
    /\ enriched[1]["description"] = baseline[1]["description"]
    /\ enriched[1]["description"] # Get(ApiBody(1), "description", PyNone)
    /\ Truthy(Get(ApiBody(1), "description", PyNone))
    /\ ~Truthy(baseline[2]["description"])
    /\ enriched[2]["description"] = PyStr(<<"API", " ", "description">>)
    /\ enriched[2]["stars"] = PyInt(46000)
    /\ enriched[2]["stars"] # baseline[2]["stars"]

\* C13: in a run without a token no step ever sends a request to the secondary
\* API or enters the enrichment loop, and the run ends straight after the parse
\* loop with the list the parse loop built, its records holding the baseline
\* fields only.
C13_NoTokenNoEnrichment ==
    [][token = <<>> =>
         /\ log' = <<>>
         /\ enriched' = <<>>
         /\ pc' # "enrich"
         /\ (pc # "done" /\ pc' = "done") =>
              /\ pc = "parsed"
              /\ repositories' = repositories
              /\ \A j \in 1..Len(repositories') :
                   DOMAIN repositories'[j] = BaselineFields]_vars

C13_Witness ==
    /\ pc = "done"
    /\ token = <<>>
    /\ Len(repositories) = 2
    /\ log = <<>>
    /\ "watchers" \notin DOMAIN repositories[1]

\* The magnitude suffix a count text ends with, "" when it ends with none.
SuffixOf(text) ==
    IF text # <<>> /\ text[Len(text)] \in {"k", "K", "m", "M"} THEN text[Len(text)] ELSE ""

Multiplier(text) ==
    CASE SuffixOf(text) \in {"k", "K"} -> 1000
      [] SuffixOf(text) \in {"m", "M"} -> 1000000
      [] OTHER -> 1

\* The numeric portion of a count text, separators removed, split at the point.
NumericParts(text) ==
    Split(Remove(IF SuffixOf(text) # "" THEN Front(text) ELSE text, ","), ".")

\* Digits, optionally a point and more digits, optionally a suffix.
WellFormed(text) ==
    /\ Len(NumericParts(text)) \in {1, 2}
    /\ \A n \in 1..Len(NumericParts(text)) :
         NumericParts(text)[n] # <<>> /\ AllDigits(NumericParts(text)[n])

FractionOf(text) ==
    IF Len(NumericParts(text)) = 2 THEN NumericParts(text)[2] ELSE <<>>

\* The numeric portion times the multiplier is a whole number.
WholeProduct(text) == Multiplier(text) % Pow10(Len(FractionOf(text))) = 0

\* The numeric portion times the multiplier, in exact arithmetic.
CountValue(text) ==
    DigitsVal(NumericParts(text)[1]) * Multiplier(text)
      + DigitsVal(FractionOf(text)) * (Multiplier(text) \div Pow10(Len(FractionOf(text))))

\* The texts of the stars elements of the fetched document.
StarsTexts == {articles[j].stars[1] : j \in {n \in 1..Len(articles) : articles[n].stars # Missing}}

\* Texts that denote no number: empty, stray symbols, a bare suffix, both
\* suffixes, two points.
NoNumber ==
    { <<>>, <<"x", "x">>, <<"$", "5">>, <<"k">>, <<"1", "k", "m">>,
      <<"1", ".", "2", ".", "3">> }

\* C14: _parse_number returns an integer for every text a stars element holds,
\* 0 when the text denotes no number, and no entry is dropped for an exception
\* raised while its counts are read.
C14_ParseNumberNeverFails ==
    /\ \A text \in StarsTexts :
         /\ ~ParseNumber(text).raised
         /\ text \in NoNumber => ParseNumber(text) = Ret(0)
    /\ \A e \in skipped : e[2] = "no full_name"

\* C15: for every well-formed count text whose product with the multiplier is
\* a whole number, _parse_number returns that product, and the record of the
\* entry holds it as stars.
C15_WellFormedCounts ==
    pc \in {"parsed", "enrich", "done"} =>
      \A j \in 1..Len(articles) :
        (/\ articles[j].stars # Missing
         /\ WellFormed(articles[j].stars[1])
         /\ WholeProduct(articles[j].stars[1])) =>
          /\ ParseNumber(articles[j].stars[1]) = Ret(CountValue(articles[j].stars[1]))
          /\ j \notin Dropped
          /\ Len(articles) = 1 =>
               repositories[1]["stars"] = PyInt(CountValue(articles[1].stars[1]))

CountFields == {"stars", "forks", "stars_today", "watchers", "open_issues"}

\* C16: every count field of every record, after parsing and during and after
\* enrichment, holds an integer that is not negative.
C16_CountsNonNegative ==
    \A j \in 1..Len(repositories) :
      \A f \in CountFields \cap DOMAIN repositories[j] :
        repositories[j][f].t = "int" /\ repositories[j][f].v >= 0

\* C17: no two records of the list scrape builds and returns have the same
\* full_name.
C17_FullNameUnique ==
    \A a, b \in 1..Len(repositories) :
      a # b => repositories[a]["full_name"] # repositories[b]["full_name"]

Windows == {PyStr(<<"daily">>), PyStr(<<"weekly">>), PyStr(<<"monthly">>)}

\* The path the claim describes: the base, and the language as one more
\* segment when a language filter is given.
ClaimedPath ==
    IF scraper.language \notin {PyNone, PyStr(<<>>)}
    THEN BaseUrl \o <<"/">> \o scraper.language.v
    ELSE BaseUrl

\* The query the claim describes: since={window} for weekly and monthly, none
\* for daily.
ClaimedQuery ==
    IF scraper.since \in {PyStr(<<"weekly">>), PyStr(<<"monthly">>)}
    THEN <<"?", "since", "=">> \o scraper.since.v
    ELSE <<>>

\* C18: every listing request of a scraper whose window is daily, weekly or
\* monthly goes to the base, followed by the language segment exactly when a
\* language filter is given, followed by the query since={window} exactly when
\* the window is weekly or monthly.
C18_ListingTarget ==
    (target # <<>> /\ scraper.since \in Windows) => target = ClaimedPath \o ClaimedQuery

C18_Witness ==
    /\ pc = "done"
    /\ target = <<"https://github.com/trending", "/", "python", "?", "since", "=", "weekly">>

\* C19: the built_by list of every record holds at most 5 user names, no user
\* name twice, never the owner of the record, and only user names of avatar
\* links of the entry.
C19_BuiltByBounded ==
    \A j \in 1..Len(repositories) :
      /\ Len(repositories[j]["built_by"].v) <= 5
      /\ \A a, b \in 1..Len(repositories[j]["built_by"].v) :
           a # b => repositories[j]["built_by"].v[a] # repositories[j]["built_by"].v[b]
      /\ \A a \in 1..Len(repositories[j]["built_by"].v) :
           /\ repositories[j]["built_by"].v[a] # repositories[j]["owner"].v
           /\ Len(articles) = 1 =>
                \E n \in 1..Len(articles[1].avatars) :
                  articles[1].avatars[n] = <<"@">> \o repositories[j]["built_by"].v[a]

C19_Witness ==
    /\ pc = "parsed"
    /\ Len(repositories) = 1
    /\ Len(articles[1].avatars) = 8
    /\ articles[1].avatars[3] = <<"@", "o1">>
    /\ repositories[1]["owner"] = PyStr(<<"o1">>)
    /\ repositories[1]["built_by"] =
         PyList(<< <<"u6">>, <<"u2">>, <<"u4">>, <<"u1">>, <<"u3">> >>)

\* C20: the topics list of every record holds at most 10 topics.
C20_TopicsAtMostTen ==
    \A j \in 1..Len(repositories) :
      "topics" \in DOMAIN repositories[j] => Len(repositories[j]["topics"].v) <= 10

\* The text up to the first line break.
FirstLine(text) ==
    SubSeq(text, 1, Cardinality({n \in 1..Len(text) : \A m \in 1..n : text[m] # "\n"}))

\* s is the text cut to at most n characters.
CutTo(s, text, n) ==
    /\ Len(s) <= n
    /\ Len(s) = Min(Len(text), n)
    /\ s = SubSeq(text, 1, Len(s))

\* The commits the commits request of record j was answered with.
ApiCommits(j) == log[j].commits[Len(log[j].commits)].body[1].v

\* Entry n of the recent_commits of record j summarises commit n of the answer.
Summarises(j, n) ==
    /\ CutTo(repositories[j]["recent_commits"].v[n].v["sha"].v,
             ApiCommits(j)[n].v["sha"].v, 7)
    /\ CutTo(repositories[j]["recent_commits"].v[n].v["message"].v,
             FirstLine(ApiCommits(j)[n].v["commit"].v["message"].v), 100)

\* C21: the recent_commits of a record hold at most 5 entries, entry n being
\* the summary of commit n of the answer: its sha cut to 7 characters, the
\* first line of its message cut to 100 characters.
C21_RecentCommitsBounded ==
    \A j \in 1..Len(repositories) :
      "recent_commits" \in DOMAIN repositories[j] =>
        /\ Len(repositories[j]["recent_commits"].v) <= 5
        /\ \A n \in 1..Len(repositories[j]["recent_commits"].v) : Summarises(j, n)

\* The requests sent to the secondary API for record j.
Requests(j) ==
    Len(log[j].core) + Len(log[j].readme) + Len(log[j].commits) + Len(log[j].languages)

\* The requests sent to the secondary API for the first n records.
RECURSIVE RequestsUpTo(_)
RequestsUpTo(n) == IF n = 0 THEN 0 ELSE Requests(n) + RequestsUpTo(n - 1)

\* C22: one run of the enrichment over n records sends at most one core
\* metadata request per record, at most one README, one commits and one
\* languages request for each of the first 10 records and none for the others:
\* at most n + 3 * min(n, 10) requests in all.
C22_RequestsBounded ==
    /\ \A j \in 1..Len(log) :
         /\ Len(log[j].core) <= 1
         /\ Len(log[j].readme) <= (IF j <= 10 THEN 1 ELSE 0)
         /\ Len(log[j].commits) <= (IF j <= 10 THEN 1 ELSE 0)
         /\ Len(log[j].languages) <= (IF j <= 10 THEN 1 ELSE 0)
    /\ RequestsUpTo(Len(log)) <= Len(log) + 3 * Min(Len(log), 10)

C22_Witness ==
    /\ pc = "done"
    /\ Len(repositories) = 11
    /\ Len(log) = 11
    /\ RequestsUpTo(11) = 41
    /\ Requests(10) = 4
    /\ Requests(11) = 1

\* The core metadata call of record j gave no data: its request failed, was
\* answered with another status than 200, or with no or an empty JSON value.
CoreFailed(j) ==
    /\ log[j].core # <<>>
    /\ ~(Succeeded(log[j].core[Len(log[j].core)]) /\ Truthy(log[j].core[Len(log[j].core)].body[1]))

\* C23: a README, commits or languages request is sent for a record only after
\* its core metadata request was answered with data; a record whose core
\* metadata call gave none gets no such request and enters the result as it
\* entered the loop, with the baseline fields only; the loop goes on after it,
\* and every record before the current one had its core metadata request sent.
C23_SubFetchesNeedCore ==
    \A j \in 1..Len(log) :
      /\ ~NoSubFetch(j) => Overlaid(j)
      /\ CoreFailed(j) =>
           /\ NoSubFetch(j)
           /\ i > j
           /\ enriched[j] = baseline[j]
           /\ DOMAIN enriched[j] = BaselineFields
      /\ (j < i /\ pc \in {"enrich", "done"}) => log[j].core # <<>>

C23_Witness ==
    /\ pc = "done"
    /\ Len(repositories) = 2
    /\ Len(log) = 2
    /\ CoreFailed(1)
    /\ log[1].core[1].exc # ""
    /\ NoSubFetch(1)
    /\ repositories[1] = baseline[1]
    /\ Overlaid(2)
    /\ log[2].readme # <<>> /\ log[2].commits # <<>> /\ log[2].languages # <<>>

\* C24: when fetch_trending raised or returned an empty list, run_report
\* returns False without starting the analysis, the local save, push_all or
\* update_readme; those steps are started only after fetch_trending returned
\* a list that is not empty.
C24_NoReposEndsRun ==
    /\ rpc = "fetch" => (steps = <<>> /\ result = "")
    /\ (rpc # "fetch" /\ (pc = "raised" \/ repositories = <<>>)) =>
         (rpc = "returned" /\ result = "False" /\ steps = <<>>)
    /\ steps # <<>> => (pc = "done" /\ repositories # <<>>)

C24_Witness ==
    /\ rpc = "returned"
    /\ result = "False"
    /\ steps = <<>>
    /\ pc = "done"
    /\ articles # <<>>
    /\ repositories = <<>>
    /\ options.push_to_repo
    /\ options.output_local

====
